---- MODULE Spec2Model ----
(***************************************************************************)
(* Model of Sources/Sampler/metropolis_local_v2.cc: detail::Flipper (the   *)
(* batched configuration with its single-site proposals) and               *)
(* MetropolisLocalV2 (the batched Metropolis sampler driving a Flipper     *)
(* and a log-amplitude machine).                                           *)
(*                                                                         *)
(* The object under test is either a bare detail::Flipper, driven by a     *)
(* caller that passes arbitrary accept masks, or a MetropolisLocalV2.      *)
(* Flipper member functions are atomic actions; the member functions of    *)
(* MetropolisLocalV2 are split at their statements (pc), because a         *)
(* throwing machine leaves them half-way.  A second specification,        *)
(* SpecPair, runs two MetropolisLocalV2 side by side on the same numbers   *)
(* drawn, one step per public call.                                        *)
(*                                                                         *)
(* Indices: chains and sites index TLA+ sequences from 1, while the values *)
(* stored in sites_ and the indices into local_states_ are the 0-based     *)
(* values of the code.                                                     *)
(***************************************************************************)
EXTENDS Integers, Sequences, FiniteSets, TLC

VARIABLES
  harness,        \* "Flipper" or "MetropolisLocalV2": the class under test
  batch_size,     \* constructor argument
  system_size,    \* constructor argument (machine.Nvisible())
  local_states,   \* constructor argument (Hilbert LocalStates()), as given
  machine_,       \* the machine (log-amplitude oracle) the sampler refers to
  local_states_,  \* Flipper::local_states_
  state_,         \* Flipper::state_, batch_size x system_size
  sites_,         \* Flipper::sites_
  values_,        \* Flipper::values_
  engine_,        \* Flipper::engine_: numbers taken from the generator since
                  \* entry to the public call in progress (or last completed)
  proposed_X_,    \* MetropolisLocalV2::proposed_X_
  proposed_Y_,    \* MetropolisLocalV2::proposed_Y_
  current_Y_,     \* MetropolisLocalV2::current_Y_
  randoms_,       \* MetropolisLocalV2::randoms_
  accept_,        \* MetropolisLocalV2::accept_ (Flipper harness: the mask
                  \* the caller passed to the last Flipper::Next)
  pc,             \* position of the thread of control
  last_call,      \* the public member function entered last
  result,         \* how the last completed call ended
  raised_in,      \* the function that threw, "" if none
  oracle_calls,   \* LogVal invocations since entry to the call in progress
  oracle_failed,  \* some LogVal invocation on this object has thrown
  calls,          \* public calls made on the constructed sampler
  pre,            \* sampler state at entry to the Next() in progress / last
  twin,           \* a second sampler, fed the same generator stream and
                  \* the same calls: its constructor argument local_states
                  \* and its members (NoTwin where one object is under test)
  schedule        \* with a twin: the kinds of the numbers the call in
                  \* progress / last took from the generator, in order

vars == <<harness, batch_size, system_size, local_states, machine_,
          local_states_, state_, sites_, values_, engine_,
          proposed_X_, proposed_Y_, current_Y_, randoms_, accept_,
          pc, last_call, result, raised_in, oracle_calls, oracle_failed,
          calls, pre, twin, schedule>>

flipperVars == <<local_states_, state_, sites_, values_, engine_>>
bufferVars == <<proposed_X_, proposed_Y_, current_Y_, randoms_>>
argVars == <<harness, batch_size, system_size, local_states, machine_>>
twinVars == <<twin, schedule>>

----------------------------------------------------------------------------
(* Bounds of the model *)

MaxBatch == 2
MaxSites == 2
\* longest local_states handed to a bare Flipper
MaxAlphabet == 3
\* longest local_states of the Hilbert space of a sampler's machine
MaxLocalStates == 2
\* configurations of a constructed object: (number of local states) to the
\* power batch_size * system_size, a cell counting for two values at least
MaxConfigurations == 16
\* public calls (Reset, Next) made on a constructed sampler
MaxCalls == 2
\* with two samplers side by side: values^(batch_size * system_size) at most
MaxPairConfigurations == 4

LocalValues == {-1, 0, 1, 2}
SpinValues == {-1, 1}

\* A double that is no local state: the content of memory read outside
\* local_states_, and of Eigen buffers that were sized but never written.
Indeterminate == 99

----------------------------------------------------------------------------
(* Helpers *)

Range(s) == {s[i] : i \in DOMAIN s}

SeqsUpTo(S, n) == UNION {[1..k -> S] : k \in 0..n}

IsDistinct(s) == \A i, k \in DOMAIN s : i # k => s[i] # s[k]

IsSorted(s) == \A i, k \in DOMAIN s : i < k => s[i] <= s[k]

RECURSIVE InsertSorted(_, _)
InsertSorted(x, s) ==
  IF s = <<>> THEN <<x>>
  ELSE IF x <= Head(s) THEN <<x>> \o s
       ELSE <<Head(s)>> \o InsertSorted(x, Tail(s))

\* std::sort(local_states_.begin(), local_states_.end())
RECURSIVE SortAscending(_)
SortAscending(s) ==
  IF s = <<>> THEN <<>> ELSE InsertSorted(Head(s), SortAscending(Tail(s)))

\* local_states_[i], i the 0-based index of the code; outside the vector the
\* read yields whatever the memory holds.
At(ls, i) == IF i \in 0..(Len(ls) - 1) THEN ls[i + 1] ELSE Indeterminate

\* The values std::uniform_int_distribution<int>{a, b} can return. a > b
\* breaks the distribution's precondition: the result is then any int, of
\* which the model keeps those around the empty range.
UniformIntDistribution(a, b) == IF a <= b THEN a..b ELSE b..(a + 1)

----------------------------------------------------------------------------
(* detail::Flipper *)

BatchSize(state) == Len(state)

\* Flipper::RandomState: every cell is local_states_[uniform{0, size - 1}]
RandomState(ls, B, N) ==
  [1..B -> [1..N -> {At(ls, i) : i \in UniformIntDistribution(0, Len(ls) - 1)}]]

\* Flipper::RandomSites: every chain's site is uniform{0, SystemSize() - 1}
RandomSites(B, N) == [1..B -> UniformIntDistribution(0, N - 1)]

\* Index draws over the whole of local_states_, uniform{0, size - 1}
RandomIndicesWhole(ls, B) == [1..B -> UniformIntDistribution(0, Len(ls) - 1)]

\* The index draws of Flipper::RandomValues, uniform{0, size - 2} per chain
RandomIndices(ls, B) == [1..B -> UniformIntDistribution(0, Len(ls) - 2)]

\* The lambda g of Flipper::RandomValues, for the index idx it drew and the
\* current value cur = state_(j, sites_(j))
ShiftedValueGt(ls, idx, cur) ==
  At(ls, idx + (IF At(ls, idx) > cur THEN 1 ELSE 0))

ShiftedValue(ls, idx, cur) ==
  At(ls, idx + (IF At(ls, idx) >= cur THEN 1 ELSE 0))

\* Flipper::RandomValues for the index draws idxs
RandomValues(ls, state, sites, idxs) ==
  [j \in 1..BatchSize(state) |->
     ShiftedValue(ls, idxs[j], state[j][sites[j] + 1])]

\* The loop of Flipper::Next: accepted chains take their proposed value
ApplyAcceptedAll(state, sites, values, accept) ==
  [j \in 1..BatchSize(state) |-> [state[j] EXCEPT ![sites[j] + 1] = values[j]]]

\* The loop with the first chain's bit deciding for every chain
ApplyAcceptedFirstBit(state, sites, values, accept) ==
  [j \in 1..BatchSize(state) |->
     IF accept[1] THEN [state[j] EXCEPT ![sites[j] + 1] = values[j]]
     ELSE state[j]]

ApplyAccepted(state, sites, values, accept) ==
  [j \in 1..BatchSize(state) |->
     IF accept[j] THEN [state[j] EXCEPT ![sites[j] + 1] = values[j]]
     ELSE state[j]]

\* Read(x) writing the proposal of the first chain only
ReadProposedFirstChain(state, sites, values) ==
  [j \in 1..BatchSize(state) |->
     IF j = 1 THEN [state[j] EXCEPT ![sites[j] + 1] = values[j]]
     ELSE state[j]]

\* Flipper::Read(x): the current configuration with every chain's proposal
ReadProposed(state, sites, values) ==
  [j \in 1..BatchSize(state) |-> [state[j] EXCEPT ![sites[j] + 1] = values[j]]]

\* The checks without the one of local_states_.empty()
FlipperArgumentErrorSizesOnly(B, N, ls) ==
  IF B < 1 THEN "invalid batch size"
  ELSE IF N < 1 THEN "invalid system size"
  ELSE "none"

\* The checks with one more, that rejects a repeated local state
FlipperArgumentErrorRepeated(B, N, ls) ==
  IF B < 1 THEN "invalid batch size"
  ELSE IF N < 1 THEN "invalid system size"
  ELSE IF ls = <<>> \/ ~IsDistinct(ls) THEN "invalid local states"
  ELSE "none"

\* The checks of Flipper::Flipper, in the order of the code
FlipperArgumentError(B, N, ls) ==
  IF B < 1 THEN "invalid batch size"
  ELSE IF N < 1 THEN "invalid system size"
  ELSE IF ls = <<>> THEN "invalid local states"
  ELSE "none"

\* Flipper::Reset on a Flipper of shape B x N with local states ls, after
\* `drawn` numbers were taken from the generator:
\* RandomState(); RandomSites(); RandomValues();
FlipperReset(ls, B, N, drawn) ==
  \E st \in RandomState(ls, B, N) :
    \E si \in RandomSites(B, N) :
      \E ix \in RandomIndices(ls, B) :
        /\ state_' = st
        /\ sites_' = si
        /\ values_' = RandomValues(ls, st, si, ix)
        /\ engine_' = drawn + B * N + B + B

\* Flipper::Next(accept) with the proposal drawn against the old state_
FlipperNextStale(accept, drawn) ==
  LET B == BatchSize(state_)
      N == system_size
  IN \E si \in RandomSites(B, N) :
       \E ix \in RandomIndices(local_states_, B) :
         /\ state_' = ApplyAccepted(state_, sites_, values_, accept)
         /\ sites_' = si
         /\ values_' = RandomValues(local_states_, state_, si, ix)
         /\ engine_' = drawn + B + B

\* Flipper::Next(accept) drawing a new proposal for the accepted chains only
FlipperNextAcceptedOnly(accept, drawn) ==
  LET B == BatchSize(state_)
      N == system_size
      st == ApplyAccepted(state_, sites_, values_, accept)
      A == Cardinality({j \in 1..B : accept[j]})
  IN \E si \in RandomSites(B, N) :
       \E ix \in RandomIndices(local_states_, B) :
         /\ state_' = st
         /\ sites_' = [j \in 1..B |-> IF accept[j] THEN si[j] ELSE sites_[j]]
         /\ values_' = [j \in 1..B |->
                          IF accept[j]
                          THEN RandomValues(local_states_, st, si, ix)[j]
                          ELSE values_[j]]
         /\ engine_' = drawn + A + A

\* Flipper::Next(accept): the accepted writes; RandomSites(); RandomValues();
FlipperNext(accept, drawn) ==
  LET B == BatchSize(state_)
      N == system_size
      st == ApplyAccepted(state_, sites_, values_, accept)
  IN \E si \in RandomSites(B, N) :
       \E ix \in RandomIndices(local_states_, B) :
         /\ state_' = st
         /\ sites_' = si
         /\ values_' = RandomValues(local_states_, st, si, ix)
         /\ engine_' = drawn + B + B

----------------------------------------------------------------------------
(* The machine and the arithmetic of the acceptance test *)

\* Two machines stand for RbmSpinV2::LogVal, a pure row-wise function: one
\* whose log-amplitude is the same for every configuration, and one whose
\* log-amplitude is a weighted sum of the row, with a small weight on the
\* first site and a large one on the others.
Machines == {"Constant", "Weighted"}

Weight(s) == IF s = 1 THEN 1 ELSE 200

RECURSIVE WeightedSum(_, _)
WeightedSum(row, s) ==
  IF s = 0 THEN 0 ELSE Weight(s) * row[s] + WeightedSum(row, s - 1)

\* A log-amplitude is the pair <<real part, imaginary part>>.
RowLogVal(m, row) ==
  IF m = "Constant" THEN <<0, 0>>
  ELSE <<WeightedSum(row, Len(row)), row[Len(row)]>>

\* machine_.LogVal(x, out, {}): one log-amplitude per row of x
LogVal(m, x) == [j \in 1..Len(x) |-> RowLogVal(m, x[j])]

Re(y) == y[1]

\* A non-negative double is kept as its natural logarithm: e^k is the
\* integer k, for k between the logarithms of the smallest and the largest
\* positive double; below is 0, above is +infinity.
ExpMax == 709
ExpMin == -745
Zero == ExpMin - 1
Inf == ExpMax + 1
One == 0

\* .exp() of a double
Exp(x) == IF x > ExpMax THEN Inf ELSE IF x < ExpMin THEN Zero ELSE x

\* .square() of a non-negative double
Square(v) ==
  IF v = Zero THEN Zero
  ELSE IF v = Inf THEN Inf
  ELSE IF 2 * v > ExpMax THEN Inf
  ELSE IF 2 * v < ExpMin THEN Zero
  ELSE 2 * v

\* .min(c)
Min(v, c) == IF v < c THEN v ELSE c

\* (proposed_Y_ - current_Y_).real().exp().square().min(1.0), one chain
AcceptanceProbability(proposed, current) ==
  Min(Square(Exp(Re(proposed) - Re(current))), One)

\* The values std::uniform_real_distribution<double>{} can return, all in
\* [0, 1): 0 and e^-4, which is the acceptance probability of a flip of the
\* first site against the Weighted machine.
UniformRealDistribution == {Zero, -4}

AcceptsLeq(u, proposed, current) ==
  u <= AcceptanceProbability(proposed, current)

AcceptsGreater(u, proposed, current) ==
  u > AcceptanceProbability(proposed, current)

\* randoms_ < probability, one chain
Accepts(u, proposed, current) ==
  u < AcceptanceProbability(proposed, current)

----------------------------------------------------------------------------
(* Initial states: the arguments of the constructor, nothing constructed *)

NoSnapshot == <<>>

\* No second sampler
NoTwin == <<>>

RECURSIVE Power(_, _)
Power(k, n) == IF n <= 0 THEN 1 ELSE k * Power(k, n - 1)

Configurations(B, N, ls) ==
  Power(IF Len(ls) < 2 THEN 2 ELSE Len(ls), B * N)

Init ==
  /\ harness \in {"Flipper", "MetropolisLocalV2"}
  /\ batch_size \in (-1)..MaxBatch
  /\ system_size \in 0..MaxSites
  /\ local_states \in IF harness = "Flipper"
                      THEN SeqsUpTo(LocalValues, MaxAlphabet)
                      ELSE SeqsUpTo(SpinValues, MaxLocalStates)
  /\ Configurations(batch_size, system_size, local_states) <= MaxConfigurations
  /\ machine_ \in IF harness = "Flipper" THEN {"none"} ELSE Machines
  /\ local_states_ = <<>>
  /\ state_ = <<>>
  /\ sites_ = <<>>
  /\ values_ = <<>>
  /\ engine_ = 0
  /\ proposed_X_ = <<>>
  /\ proposed_Y_ = <<>>
  /\ current_Y_ = <<>>
  /\ randoms_ = <<>>
  /\ accept_ = <<>>
  /\ pc = "new"
  /\ last_call = "none"
  /\ result = "none"
  /\ raised_in = ""
  /\ oracle_calls = 0
  /\ oracle_failed = FALSE
  /\ calls = 0
  /\ pre = NoSnapshot
  /\ twin = NoTwin
  /\ schedule = <<>>

----------------------------------------------------------------------------
(* A bare detail::Flipper and its caller *)

\* Flipper::Flipper throws: the members initialised so far (local_states_
\* among them) are destroyed with the object that never came to exist
FlipperCtorThrows ==
  /\ harness = "Flipper" /\ pc = "new"
  /\ FlipperArgumentError(batch_size, system_size, local_states) # "none"
  /\ pc' = "dead"
  /\ last_call' = "Flipper"
  /\ result' = "InvalidInputError"
  /\ raised_in' = "Flipper::Flipper"
  /\ UNCHANGED <<argVars, twinVars, flipperVars, bufferVars, accept_, oracle_calls,
                 oracle_failed, calls, pre>>

\* Flipper::Flipper returns: sort, resize, Reset()
FlipperCtor ==
  /\ harness = "Flipper" /\ pc = "new"
  /\ FlipperArgumentError(batch_size, system_size, local_states) = "none"
  /\ local_states_' = SortAscending(local_states)
  /\ FlipperReset(local_states_', batch_size, system_size, 0)
  /\ pc' = "idle"
  /\ last_call' = "Flipper"
  /\ result' = "ok"
  /\ UNCHANGED <<argVars, twinVars, bufferVars, accept_, raised_in, oracle_calls,
                 oracle_failed, calls, pre>>

\* The caller calls Flipper::Reset()
FlipperResetCall ==
  /\ harness = "Flipper" /\ pc = "idle"
  /\ FlipperReset(local_states_, BatchSize(state_), system_size, 0)
  /\ last_call' = "Reset"
  /\ UNCHANGED <<argVars, twinVars, local_states_, bufferVars, accept_, pc, result,
                 raised_in, oracle_calls, oracle_failed, calls, pre>>

\* The caller calls Flipper::Next(accept) with a mask of its choice
FlipperNextCall ==
  /\ harness = "Flipper" /\ pc = "idle"
  /\ \E accept \in [1..BatchSize(state_) -> BOOLEAN] :
       /\ FlipperNext(accept, 0)
       /\ accept_' = accept
  /\ last_call' = "Next"
  /\ UNCHANGED <<argVars, twinVars, local_states_, bufferVars, pc, result,
                 raised_in, oracle_calls, oracle_failed, calls, pre>>

FlipperStep ==
  \/ FlipperCtorThrows
  \/ FlipperCtor
  \/ FlipperResetCall
  \/ FlipperNextCall

----------------------------------------------------------------------------
(* MetropolisLocalV2 *)

Snapshot ==
  [state |-> state_, sites |-> sites_, values |-> values_,
   current_Y |-> current_Y_]

\* Eigen buffers sized by the constructor and not written yet
UnwrittenMatrix(B, N) == [j \in 1..B |-> [s \in 1..N |-> Indeterminate]]
UnwrittenComplex(B) == [j \in 1..B |-> <<Indeterminate, Indeterminate>>]
UnwrittenReal(B) == [j \in 1..B |-> Indeterminate]
UnwrittenBool(B) == [j \in 1..B |-> FALSE]

\* detail::CheckBatchSize throws: the delegating constructor evaluates it
\* before anything of the object is constructed
CheckBatchSizeThrows ==
  /\ harness = "MetropolisLocalV2" /\ pc = "new"
  /\ batch_size <= 0
  /\ pc' = "dead"
  /\ last_call' = "MetropolisLocalV2"
  /\ result' = "InvalidInputError"
  /\ raised_in' = "CheckBatchSize"
  /\ UNCHANGED <<argVars, twinVars, flipperVars, bufferVars, accept_, oracle_calls,
                 oracle_failed, calls, pre>>

\* detail::CheckBatchSize returns batch_size
CheckBatchSize ==
  /\ harness = "MetropolisLocalV2" /\ pc = "new"
  /\ ~(batch_size <= 0)
  /\ pc' = "ctor_flipper"
  /\ last_call' = "MetropolisLocalV2"
  /\ UNCHANGED <<argVars, twinVars, flipperVars, bufferVars, accept_, result, raised_in,
                 oracle_calls, oracle_failed, calls, pre>>

\* The member flipper_ is constructed: Flipper::Flipper throws
CtorFlipperThrows ==
  /\ pc = "ctor_flipper"
  /\ FlipperArgumentError(batch_size, system_size, local_states) # "none"
  /\ pc' = "dead"
  /\ result' = "InvalidInputError"
  /\ raised_in' = "Flipper::Flipper"
  /\ UNCHANGED <<argVars, twinVars, flipperVars, bufferVars, accept_, last_call,
                 oracle_calls, oracle_failed, calls, pre>>

\* The member flipper_ is constructed, then the buffers are sized
CtorFlipper ==
  /\ pc = "ctor_flipper"
  /\ FlipperArgumentError(batch_size, system_size, local_states) = "none"
  /\ local_states_' = SortAscending(local_states)
  /\ FlipperReset(local_states_', batch_size, system_size, 0)
  /\ proposed_X_' = UnwrittenMatrix(batch_size, system_size)
  /\ proposed_Y_' = UnwrittenComplex(batch_size)
  /\ current_Y_' = UnwrittenComplex(batch_size)
  /\ randoms_' = UnwrittenReal(batch_size)
  /\ accept_' = UnwrittenBool(batch_size)
  /\ pc' = "ctor_logval"
  /\ UNCHANGED <<argVars, twinVars, last_call, result, raised_in, oracle_calls,
                 oracle_failed, calls, pre>>

\* The constructor's body: machine_.LogVal(flipper_.Current(), current_Y_, {})
CtorLogVal ==
  /\ pc = "ctor_logval"
  /\ current_Y_' = LogVal(machine_, state_)
  /\ oracle_calls' = oracle_calls + 1
  /\ pc' = "idle"
  /\ result' = "ok"
  /\ UNCHANGED <<argVars, twinVars, flipperVars, proposed_X_, proposed_Y_, randoms_,
                 accept_, last_call, raised_in, oracle_failed, calls, pre>>

\* ... and the machine throws: no sampler comes to exist
CtorLogValThrows ==
  /\ pc = "ctor_logval"
  /\ oracle_calls' = oracle_calls + 1
  /\ oracle_failed' = TRUE
  /\ pc' = "dead"
  /\ result' = "OracleError"
  /\ raised_in' = "LogVal"
  /\ UNCHANGED <<argVars, twinVars, flipperVars, bufferVars, accept_, last_call, calls,
                 pre>>

\* MetropolisLocalV2::Reset is entered: flipper_.Reset()
ResetFlipper ==
  /\ harness = "MetropolisLocalV2" /\ pc = "idle"
  /\ calls < MaxCalls
  /\ calls' = calls + 1
  /\ last_call' = "Reset"
  /\ result' = "none"
  /\ raised_in' = ""
  /\ oracle_calls' = 0
  /\ pre' = NoSnapshot
  /\ FlipperReset(local_states_, BatchSize(state_), system_size, 0)
  /\ pc' = "reset_logval"
  /\ UNCHANGED <<argVars, twinVars, local_states_, bufferVars, accept_, oracle_failed>>

\* machine_.LogVal(flipper_.Current(), current_Y_, {})
ResetLogVal ==
  /\ pc = "reset_logval"
  /\ current_Y_' = LogVal(machine_, state_)
  /\ oracle_calls' = oracle_calls + 1
  /\ pc' = "idle"
  /\ result' = "ok"
  /\ UNCHANGED <<argVars, twinVars, flipperVars, proposed_X_, proposed_Y_, randoms_,
                 accept_, last_call, raised_in, oracle_failed, calls, pre>>

\* ... and the machine throws, leaving its output argument as it was
ResetLogValThrows ==
  /\ pc = "reset_logval"
  /\ oracle_calls' = oracle_calls + 1
  /\ oracle_failed' = TRUE
  /\ pc' = "idle"
  /\ result' = "OracleError"
  /\ raised_in' = "LogVal"
  /\ UNCHANGED <<argVars, twinVars, flipperVars, bufferVars, accept_, last_call, calls,
                 pre>>

\* MetropolisLocalV2::Next with the acceptance randoms drawn on entry
NextReadDrawsFirst ==
  /\ harness = "MetropolisLocalV2" /\ pc = "idle"
  /\ calls < MaxCalls
  /\ calls' = calls + 1
  /\ last_call' = "Next"
  /\ result' = "none"
  /\ raised_in' = ""
  /\ oracle_calls' = 0
  /\ pre' = Snapshot
  /\ randoms_' \in [1..BatchSize(state_) -> UniformRealDistribution]
  /\ engine_' = BatchSize(state_)
  /\ proposed_X_' = ReadProposed(state_, sites_, values_)
  /\ pc' = "next_logval"
  /\ UNCHANGED <<argVars, twinVars, local_states_, state_, sites_, values_,
                 proposed_Y_, current_Y_, accept_, oracle_failed>>

\* MetropolisLocalV2::Next is entered: flipper_.Read(proposed_X_)
NextRead ==
  /\ harness = "MetropolisLocalV2" /\ pc = "idle"
  /\ calls < MaxCalls
  /\ calls' = calls + 1
  /\ last_call' = "Next"
  /\ result' = "none"
  /\ raised_in' = ""
  /\ oracle_calls' = 0
  /\ pre' = Snapshot
  /\ engine_' = 0
  /\ proposed_X_' = ReadProposed(state_, sites_, values_)
  /\ pc' = "next_logval"
  /\ UNCHANGED <<argVars, twinVars, local_states_, state_, sites_, values_,
                 proposed_Y_, current_Y_, randoms_, accept_, oracle_failed>>

\* The machine evaluated on the proposed and again on the current batch
NextLogValTwice ==
  /\ pc = "next_logval"
  /\ proposed_Y_' = LogVal(machine_, proposed_X_)
  /\ current_Y_' = LogVal(machine_, state_)
  /\ oracle_calls' = oracle_calls + 2
  /\ pc' = "next_randoms"
  /\ UNCHANGED <<argVars, twinVars, flipperVars, proposed_X_, randoms_,
                 accept_, last_call, result, raised_in, oracle_failed, calls,
                 pre>>

\* machine_.LogVal(proposed_X_, proposed_Y_, {})
NextLogVal ==
  /\ pc = "next_logval"
  /\ proposed_Y_' = LogVal(machine_, proposed_X_)
  /\ oracle_calls' = oracle_calls + 1
  /\ pc' = "next_randoms"
  /\ UNCHANGED <<argVars, twinVars, flipperVars, proposed_X_, current_Y_, randoms_,
                 accept_, last_call, result, raised_in, oracle_failed, calls,
                 pre>>

\* ... and the machine throws, leaving its output argument as it was: the
\* exception leaves Next
NextLogValThrows ==
  /\ pc = "next_logval"
  /\ oracle_calls' = oracle_calls + 1
  /\ oracle_failed' = TRUE
  /\ pc' = "idle"
  /\ result' = "OracleError"
  /\ raised_in' = "LogVal"
  /\ UNCHANGED <<argVars, twinVars, flipperVars, bufferVars, accept_, last_call, calls,
                 pre>>

\* std::generate(randoms_ ...): one uniform real per chain
NextRandoms ==
  /\ pc = "next_randoms"
  /\ randoms_' \in [1..BatchSize(state_) -> UniformRealDistribution]
  /\ engine_' = engine_ + BatchSize(state_)
  /\ pc' = "next_accept"
  /\ UNCHANGED <<argVars, twinVars, local_states_, state_, sites_, values_,
                 proposed_X_, proposed_Y_, current_Y_, accept_, last_call,
                 result, raised_in, oracle_calls, oracle_failed, calls, pre>>

\* accept_ = randoms_ < (proposed_Y_ - current_Y_).real().exp().square().min(1.0)
NextAccept ==
  /\ pc = "next_accept"
  /\ accept_' = [j \in 1..BatchSize(state_) |->
                   Accepts(randoms_[j], proposed_Y_[j], current_Y_[j])]
  /\ pc' = "next_select"
  /\ UNCHANGED <<argVars, twinVars, flipperVars, bufferVars, last_call, result,
                 raised_in, oracle_calls, oracle_failed, calls, pre>>

\* A select that takes the proposed log-amplitude of every chain
SelectAll(accept, proposed, current) ==
  [j \in 1..Len(current) |-> proposed[j]]

\* accept_.select(proposed_Y_, current_Y_)
Select(accept, proposed, current) ==
  [j \in 1..Len(current) |-> IF accept[j] THEN proposed[j] ELSE current[j]]

\* current_Y_ = accept_.select(proposed_Y_, current_Y_)
NextSelect ==
  /\ pc = "next_select"
  /\ current_Y_' = Select(accept_, proposed_Y_, current_Y_)
  /\ pc' = "next_commit"
  /\ UNCHANGED <<argVars, twinVars, flipperVars, proposed_X_, proposed_Y_, randoms_,
                 accept_, last_call, result, raised_in, oracle_calls,
                 oracle_failed, calls, pre>>

\* flipper_.Next({accept_}), and Next returns
NextCommit ==
  /\ pc = "next_commit"
  /\ FlipperNext(accept_, engine_)
  /\ pc' = "idle"
  /\ result' = "ok"
  /\ UNCHANGED <<argVars, twinVars, local_states_, bufferVars, accept_, last_call,
                 raised_in, oracle_calls, oracle_failed, calls, pre>>

SamplerStep ==
  \/ CheckBatchSizeThrows
  \/ CheckBatchSize
  \/ CtorFlipperThrows
  \/ CtorFlipper
  \/ CtorLogVal
  \/ CtorLogValThrows
  \/ ResetFlipper
  \/ ResetLogVal
  \/ ResetLogValThrows
  \/ NextRead
  \/ NextLogVal
  \/ NextLogValThrows
  \/ NextRandoms
  \/ NextAccept
  \/ NextSelect
  \/ NextCommit

Next == FlipperStep \/ SamplerStep

Spec == Init /\ [][Next]_vars

----------------------------------------------------------------------------
(* Two samplers on one generator stream.  Both are built with the same     *)
(* batch_size, system_size and machine, the second over a permutation of   *)
(* the first one's local_states, and both receive the same calls.  Every   *)
(* call is one step, taken by both objects with the same numbers drawn;    *)
(* the numbers are the results of the distributions, which have the same   *)
(* parameters in both objects.  A machine that throws, throws in both.     *)

\* The members of the first sampler
Self ==
  [local_states_ |-> local_states_, state_ |-> state_, sites_ |-> sites_,
   values_ |-> values_, proposed_X_ |-> proposed_X_,
   proposed_Y_ |-> proposed_Y_, current_Y_ |-> current_Y_,
   randoms_ |-> randoms_, accept_ |-> accept_]

\* The first sampler's members become those of S
Becomes(S) ==
  /\ local_states_' = S.local_states_
  /\ state_' = S.state_
  /\ sites_' = S.sites_
  /\ values_' = S.values_
  /\ proposed_X_' = S.proposed_X_
  /\ proposed_Y_' = S.proposed_Y_
  /\ current_Y_' = S.current_Y_
  /\ randoms_' = S.randoms_
  /\ accept_' = S.accept_

NoObject == <<>>

\* The sequences that hold the elements of s in some order
PermutationsOf(s) ==
  {[i \in DOMAIN s |-> s[f[i]]] :
     f \in {g \in [DOMAIN s -> DOMAIN s] :
              \A i, k \in DOMAIN s : g[i] = g[k] => i = k}}

\* n numbers of one kind taken from the generator
Draws(kind, n) == [i \in 1..n |-> kind]

\* The index draws of Flipper::RandomState, uniform{0, size - 1} per cell
CellDraws(ls, B, N) ==
  [1..B -> [1..N -> UniformIntDistribution(0, Len(ls) - 1)]]

\* Flipper::RandomState for the index draws cells
StateOfDraws(ls, cells) ==
  [j \in DOMAIN cells |-> [s \in DOMAIN cells[j] |-> At(ls, cells[j][s])]]

\* What the second object's uniform{0, size - 2} returns where the first
\* one's returned ix: the same numbers, unless the distribution's
\* precondition is broken, when each object's results are any
TwinIndices(ls, ix) ==
  IF 0 <= Len(ls) - 2 THEN {ix} ELSE RandomIndices(ls, Len(ix))

\* Flipper::Reset() of the sampler S for the numbers drawn
ObjectFlipperReset(S, cells, si, ix) ==
  LET st == StateOfDraws(S.local_states_, cells)
  IN [S EXCEPT !.state_ = st,
               !.sites_ = si,
               !.values_ = RandomValues(S.local_states_, st, si, ix)]

\* The numbers Flipper::Reset() takes
ResetSchedule ==
  Draws("cell", batch_size * system_size) \o Draws("site", batch_size)
    \o Draws("index", batch_size)

\* The numbers MetropolisLocalV2::Next() takes
NextSchedule ==
  Draws("real", batch_size) \o Draws("site", batch_size)
    \o Draws("index", batch_size)

\* The sampler the constructor builds over ls, up to the call of LogVal
ObjectCtorFlipper(ls, cells, si, ix) ==
  ObjectFlipperReset(
    [local_states_ |-> SortAscending(ls), state_ |-> <<>>, sites_ |-> <<>>,
     values_ |-> <<>>,
     proposed_X_ |-> UnwrittenMatrix(batch_size, system_size),
     proposed_Y_ |-> UnwrittenComplex(batch_size),
     current_Y_ |-> UnwrittenComplex(batch_size),
     randoms_ |-> UnwrittenReal(batch_size),
     accept_ |-> UnwrittenBool(batch_size)],
    cells, si, ix)

\* machine_.LogVal(flipper_.Current(), current_Y_, {}) in the sampler S
ObjectLogValCurrent(S) ==
  [S EXCEPT !.current_Y_ = LogVal(machine_, S.state_)]

\* flipper_.Read(proposed_X_) in the sampler S
ObjectRead(S) ==
  [S EXCEPT !.proposed_X_ = ReadProposed(S.state_, S.sites_, S.values_)]

\* MetropolisLocalV2::Next() of the sampler S for the numbers drawn
ObjectNext(S, u, si, ix) ==
  LET X == ReadProposed(S.state_, S.sites_, S.values_)
      Y == LogVal(machine_, X)
      accept == [j \in 1..BatchSize(S.state_) |->
                   Accepts(u[j], Y[j], S.current_Y_[j])]
      st == ApplyAccepted(S.state_, S.sites_, S.values_, accept)
  IN [S EXCEPT !.proposed_X_ = X,
               !.proposed_Y_ = Y,
               !.randoms_ = u,
               !.accept_ = accept,
               !.current_Y_ = Select(accept, Y, S.current_Y_),
               !.state_ = st,
               !.sites_ = si,
               !.values_ = RandomValues(S.local_states_, st, si, ix)]

InitPair ==
  /\ harness = "MetropolisLocalV2"
  /\ batch_size \in 0..MaxBatch
  /\ system_size \in 0..MaxSites
  /\ local_states \in SeqsUpTo(SpinValues, MaxLocalStates)
  /\ Configurations(batch_size, system_size, local_states) <= MaxPairConfigurations
  /\ machine_ \in Machines
  /\ local_states_ = <<>>
  /\ state_ = <<>>
  /\ sites_ = <<>>
  /\ values_ = <<>>
  /\ engine_ = 0
  /\ proposed_X_ = <<>>
  /\ proposed_Y_ = <<>>
  /\ current_Y_ = <<>>
  /\ randoms_ = <<>>
  /\ accept_ = <<>>
  /\ pc = "new"
  /\ last_call = "none"
  /\ result = "none"
  /\ raised_in = ""
  /\ oracle_calls = 0
  /\ oracle_failed = FALSE
  /\ calls = 0
  /\ pre = NoSnapshot
  /\ twin \in {[local_states |-> p, object |-> NoObject] :
                 p \in PermutationsOf(local_states)}
  /\ schedule = <<>>

\* Both constructors throw on their arguments
PairCtorThrows ==
  /\ pc = "new"
  /\ \/ batch_size <= 0
     \/ FlipperArgumentError(batch_size, system_size, local_states) # "none"
  /\ \/ batch_size <= 0
     \/ FlipperArgumentError(batch_size, system_size, twin.local_states)
          # "none"
  /\ pc' = "dead"
  /\ last_call' = "MetropolisLocalV2"
  /\ result' = "InvalidInputError"
  /\ raised_in' = IF batch_size <= 0 THEN "CheckBatchSize"
                  ELSE "Flipper::Flipper"
  /\ UNCHANGED <<argVars, twinVars, flipperVars, bufferVars, accept_,
                 oracle_calls, oracle_failed, calls, pre>>

\* Both constructors draw; the machine returns or throws in both
PairCtor ==
  /\ pc = "new"
  /\ ~(batch_size <= 0)
  /\ FlipperArgumentError(batch_size, system_size, local_states) = "none"
  /\ FlipperArgumentError(batch_size, system_size, twin.local_states) = "none"
  /\ \E cells \in CellDraws(local_states, batch_size, system_size) :
       \E si \in RandomSites(batch_size, system_size) :
         \E ix \in RandomIndices(local_states, batch_size) :
           \E ix2 \in TwinIndices(twin.local_states, ix) :
             \E throws \in BOOLEAN :
               LET S1 == ObjectCtorFlipper(local_states, cells, si, ix)
                   S2 == ObjectCtorFlipper(twin.local_states, cells, si, ix2)
               IN /\ Becomes(IF throws THEN S1 ELSE ObjectLogValCurrent(S1))
                  /\ twin' = [twin EXCEPT !.object =
                                IF throws THEN NoObject
                                ELSE ObjectLogValCurrent(S2)]
                  /\ pc' = IF throws THEN "dead" ELSE "idle"
                  /\ result' = IF throws THEN "OracleError" ELSE "ok"
                  /\ raised_in' = IF throws THEN "LogVal" ELSE ""
                  /\ oracle_failed' = throws
  /\ schedule' = ResetSchedule
  /\ engine_' = Len(schedule')
  /\ last_call' = "MetropolisLocalV2"
  /\ UNCHANGED <<argVars, oracle_calls, calls, pre>>

\* Reset() on both; the machine returns or throws in both
PairReset ==
  /\ pc = "idle"
  /\ calls < MaxCalls
  /\ calls' = calls + 1
  /\ \E cells \in CellDraws(local_states_, batch_size, system_size) :
       \E si \in RandomSites(batch_size, system_size) :
         \E ix \in RandomIndices(local_states_, batch_size) :
           \E ix2 \in TwinIndices(twin.object.local_states_, ix) :
             \E throws \in BOOLEAN :
               LET S1 == ObjectFlipperReset(Self, cells, si, ix)
                   S2 == ObjectFlipperReset(twin.object, cells, si, ix2)
               IN /\ Becomes(IF throws THEN S1 ELSE ObjectLogValCurrent(S1))
                  /\ twin' = [twin EXCEPT !.object =
                                IF throws THEN S2
                                ELSE ObjectLogValCurrent(S2)]
                  /\ result' = IF throws THEN "OracleError" ELSE "ok"
                  /\ raised_in' = IF throws THEN "LogVal" ELSE ""
                  /\ oracle_failed' = (oracle_failed \/ throws)
  /\ schedule' = ResetSchedule
  /\ engine_' = Len(schedule')
  /\ last_call' = "Reset"
  /\ UNCHANGED <<argVars, pc, oracle_calls, pre>>

\* Next() on both, the machine returning
PairNext ==
  /\ pc = "idle"
  /\ calls < MaxCalls
  /\ calls' = calls + 1
  /\ \E u \in [1..batch_size -> UniformRealDistribution] :
       \E si \in RandomSites(batch_size, system_size) :
         \E ix \in RandomIndices(local_states_, batch_size) :
           \E ix2 \in TwinIndices(twin.object.local_states_, ix) :
             /\ Becomes(ObjectNext(Self, u, si, ix))
             /\ twin' = [twin EXCEPT !.object = ObjectNext(@, u, si, ix2)]
  /\ schedule' = NextSchedule
  /\ engine_' = Len(schedule')
  /\ last_call' = "Next"
  /\ result' = "ok"
  /\ raised_in' = ""
  /\ UNCHANGED <<argVars, pc, oracle_calls, oracle_failed, pre>>

\* Next() on both, the machine throwing on the proposed batch
PairNextLogValThrows ==
  /\ pc = "idle"
  /\ calls < MaxCalls
  /\ calls' = calls + 1
  /\ Becomes(ObjectRead(Self))
  /\ twin' = [twin EXCEPT !.object = ObjectRead(@)]
  /\ schedule' = <<>>
  /\ engine_' = 0
  /\ last_call' = "Next"
  /\ result' = "OracleError"
  /\ raised_in' = "LogVal"
  /\ oracle_failed' = TRUE
  /\ UNCHANGED <<argVars, pc, oracle_calls, pre>>

NextPair ==
  \/ PairCtorThrows
  \/ PairCtor
  \/ PairReset
  \/ PairNext
  \/ PairNextLogValThrows

SpecPair == InitPair /\ [][NextPair]_vars

----------------------------------------------------------------------------
(* Properties *)

Sampler == harness = "MetropolisLocalV2"

\* The object exists and none of its member functions is executing
Observable == pc = "idle"

\* The alphabet given to the constructor has two distinct values at least
ProperAlphabet == Len(local_states) >= 2 /\ IsDistinct(local_states)

Chains == 1..BatchSize(state_)

CacheConsistent ==
  \A j \in Chains : current_Y_[j] = RowLogVal(machine_, state_[j])

\* C1 (I2): with a machine that never throws, whenever the sampler is
\* observable (after construction, after every Reset and every Next), the
\* cached current_Y_[j] is the machine's log-amplitude of row j of the
\* current configuration, for every chain j.
C1_CacheConsistency ==
  (Sampler /\ Observable /\ ~oracle_failed) => CacheConsistent

\* A Next after an earlier call, accepting one chain and rejecting another
C1_Witness ==
  /\ Sampler /\ Observable /\ ~oracle_failed
  /\ machine_ = "Weighted"
  /\ last_call = "Next" /\ result = "ok" /\ calls = 2
  /\ \E j, k \in Chains : accept_[j] /\ ~accept_[k]
  /\ current_Y_ # pre.current_Y
  /\ CacheConsistent

\* C2 (I1): for an alphabet of two distinct values at least, every entry of
\* the configuration of an observable Flipper or sampler is one of the
\* values given to the constructor.
C2_AlphabetMembership ==
  (Observable /\ ProperAlphabet) =>
    \A j \in Chains : \A s \in 1..system_size :
      state_[j][s] \in Range(local_states)

\* A sampler whose Next accepted a proposal and wrote it
C2_Witness ==
  /\ Sampler /\ Observable /\ ProperAlphabet
  /\ last_call = "Next" /\ result = "ok"
  /\ \E j \in Chains : accept_[j] /\ state_[j] # pre.state[j]
  /\ \A j \in Chains : \A s \in 1..system_size :
       state_[j][s] \in Range(local_states)

NoSelfTransition ==
  \A j \in Chains : values_[j] # state_[j][sites_[j] + 1]

\* C3 (I3): for an alphabet of two distinct values at least, in every
\* observable state (after construction, Reset, and Next whatever the accept
\* mask) the pending value of every chain differs from the current entry at
\* the chain's pending site; the proposal made inside Flipper::Next is drawn
\* against the configuration the accepted writes produced.
C3_NoSelfTransition ==
  (Observable /\ ProperAlphabet) => NoSelfTransition

\* A bare Flipper of three local states after a Next with a mixed mask
C3_Witness ==
  /\ harness = "Flipper" /\ Observable /\ ProperAlphabet
  /\ Len(local_states_) = 3
  /\ last_call = "Next"
  /\ \E j, k \in Chains : accept_[j] /\ ~accept_[k]
  /\ NoSelfTransition

\* The values the index draws 0 .. size-2 are mapped to, for current value c
ShiftImage(ls, c) == {ShiftedValue(ls, idx, c) : idx \in 0..(Len(ls) - 2)}

ShiftInjective(ls, c) ==
  \A i, k \in 0..(Len(ls) - 2) :
    i # k => ShiftedValue(ls, i, c) # ShiftedValue(ls, k, c)

\* C4: for the sorted local_states_ of k >= 2 distinct values of a constructed
\* object and every current value c among them, the index shift of
\* RandomValues maps 0 .. k-2 one-to-one onto the local states without c.
C4_IndexShiftBijection ==
  (local_states_ # <<>> /\ Len(local_states_) >= 2
     /\ IsDistinct(local_states_) /\ IsSorted(local_states_)) =>
    \A c \in Range(local_states_) :
      /\ ShiftImage(local_states_, c) = Range(local_states_) \ {c}
      /\ ShiftInjective(local_states_, c)

\* A Flipper built from three distinct values given out of order, whose
\* RandomValues has run in the constructor and in a Next
C4_Witness ==
  /\ harness = "Flipper" /\ Observable
  /\ Len(local_states_) = 3 /\ IsDistinct(local_states_)
  /\ IsSorted(local_states_) /\ ~IsSorted(local_states)
  /\ last_call = "Next"
  /\ \A j \in Chains : values_[j] \in Range(local_states_) \ {state_[j][sites_[j] + 1]}

\* The Flipper, the cache and the generator are as Next found them
AsOnEntry ==
  /\ state_ = pre.state
  /\ sites_ = pre.sites
  /\ values_ = pre.values
  /\ current_Y_ = pre.current_Y

FailedNext ==
  Sampler /\ Observable /\ last_call = "Next" /\ result = "OracleError"

\* C5: when the machine throws inside Next, the configuration, current_Y_,
\* the pending sites and values and the generator are what they were on
\* entry, so a cache that was consistent on entry still is.
C5_NextAtomicOnOracleFailure ==
  FailedNext =>
    /\ AsOnEntry
    /\ engine_ = 0
    /\ (\A j \in Chains :
          pre.current_Y[j] = RowLogVal(machine_, pre.state[j]))
         => CacheConsistent

\* A Next of two chains that the Weighted machine made fail
C5_Witness ==
  /\ FailedNext
  /\ machine_ = "Weighted"
  /\ batch_size = 2 /\ system_size = 2
  /\ raised_in = "LogVal"
  /\ proposed_X_ = ReadProposed(state_, sites_, values_)
  /\ CacheConsistent

ArgumentsInvalid ==
  batch_size < 1 \/ system_size < 1 \/ local_states = <<>>

\* Nothing was sized, no number was drawn, the machine was not called
NothingBuilt ==
  /\ state_ = <<>> /\ sites_ = <<>> /\ values_ = <<>>
  /\ proposed_X_ = <<>> /\ current_Y_ = <<>>
  /\ engine_ = 0
  /\ oracle_calls = 0

\* C6: construction with batch_size < 1, system_size < 1 or no local state
\* ends with InvalidInputError before anything is sized or drawn; the
\* sampler's constructor throws it for batch_size <= 0 from CheckBatchSize,
\* before the Flipper is constructed and before the machine is called.
C6_ConstructionValidation ==
  /\ (ArgumentsInvalid /\ pc \notin {"new", "ctor_flipper"}) =>
       (pc = "dead" /\ result = "InvalidInputError" /\ NothingBuilt)
  /\ (harness = "Flipper" /\ ArgumentsInvalid /\ pc # "new") =>
       raised_in = "Flipper::Flipper"
  /\ (Sampler /\ batch_size <= 0 /\ pc # "new") =>
       (raised_in = "CheckBatchSize" /\ local_states_ = <<>>)
  /\ (Sampler /\ batch_size >= 1 /\ ArgumentsInvalid
        /\ pc \notin {"new", "ctor_flipper"}) =>
       raised_in = "Flipper::Flipper"
  /\ pc = "ctor_flipper" => (batch_size >= 1 /\ NothingBuilt)

\* A sampler whose batch size passed CheckBatchSize and whose Flipper then
\* refused the empty local_states
C6_Witness ==
  /\ Sampler /\ pc = "dead"
  /\ batch_size >= 1 /\ system_size >= 1 /\ local_states = <<>>
  /\ result = "InvalidInputError" /\ raised_in = "Flipper::Flipper"
  /\ NothingBuilt

\* min(1, exp(2 Re(proposed - current))), as the claim writes it
ClaimedProbability(proposed, current) ==
  Min(Exp(2 * (Re(proposed) - Re(current))), One)

\* C7: the mask Next computes accepts chain j exactly when its uniform draw
\* is strictly less than min(1, exp(2 Re(proposed[j] - current[j]))); a
\* proposal with Re(proposed[j]) >= Re(current[j]) is accepted for every
\* draw and one of probability 0 is rejected for every draw, 0 included.
C7_AcceptanceRule ==
  (Sampler /\ pc = "next_select") =>
    \A j \in Chains :
      /\ accept_[j] <=>
           randoms_[j] < ClaimedProbability(proposed_Y_[j], current_Y_[j])
      /\ Re(proposed_Y_[j]) >= Re(current_Y_[j]) => accept_[j]
      /\ ClaimedProbability(proposed_Y_[j], current_Y_[j]) = Zero
           => ~accept_[j]

\* One chain drew 0 against probability 0 and is rejected, the other drew
\* its probability exactly and is rejected, being not strictly less
C7_Witness ==
  /\ Sampler /\ pc = "next_select"
  /\ \E j, k \in Chains :
       /\ randoms_[j] = Zero
       /\ ClaimedProbability(proposed_Y_[j], current_Y_[j]) = Zero
       /\ ~accept_[j]
       /\ randoms_[k] # Zero
       /\ randoms_[k] = ClaimedProbability(proposed_Y_[k], current_Y_[k])
       /\ ~accept_[k]

CompletedNext ==
  Sampler /\ Observable /\ last_call = "Next" /\ result = "ok"

\* C8: a Next that rejects every chain leaves the configuration and
\* current_Y_ as they were, and has drawn, after the acceptance randoms, a
\* new site and a new value index for every chain.
C8_IdempotentRejection ==
  (CompletedNext /\ \A j \in Chains : ~accept_[j]) =>
    /\ state_ = pre.state
    /\ current_Y_ = pre.current_Y
    /\ engine_ = 3 * BatchSize(state_)

\* Two chains, both rejected, and a proposal set that differs from the old
C8_Witness ==
  /\ CompletedNext
  /\ batch_size = 2 /\ system_size = 2
  /\ \A j \in Chains : ~accept_[j]
  /\ state_ = pre.state
  /\ sites_ # pre.sites
  /\ values_ # pre.values

\* C9: against a machine whose log-amplitude is the same for every
\* configuration, Next accepts every chain, and afterwards every chain holds
\* the value proposed before the call at the site proposed before the call
\* (a value other than the one it held there, for a proper alphabet).
C9_ConstantOracleAcceptsAll ==
  (CompletedNext /\ machine_ = "Constant") =>
    \A j \in Chains :
      /\ accept_[j]
      /\ state_[j][pre.sites[j] + 1] = pre.values[j]
      /\ ProperAlphabet =>
           state_[j][pre.sites[j] + 1] # pre.state[j][pre.sites[j] + 1]

\* The 2 x 2 sampler over [-1, 1] of the end-to-end scenario after one Next
C9_Witness ==
  /\ CompletedNext /\ machine_ = "Constant"
  /\ batch_size = 2 /\ system_size = 2 /\ local_states_ = <<-1, 1>>
  /\ calls = 1
  /\ \A j \in Chains :
       /\ accept_[j]
       /\ state_[j][pre.sites[j] + 1] = -(pre.state[j][pre.sites[j] + 1])

\* C10: Next materialises the proposed batch, calls the machine once on it,
\* then draws the acceptance randoms, computes the mask, updates current_Y_,
\* writes the accepted values and redraws the proposals; until the machine
\* has returned no number is drawn and neither the configuration nor
\* current_Y_ is written. The machine is called once per Next, once per
\* Reset and once by the constructor.
C10_StepOrderAndOracleBudget ==
  Sampler =>
    /\ pc = "next_logval" =>
         /\ oracle_calls = 0 /\ engine_ = 0 /\ AsOnEntry
         /\ proposed_X_ = ReadProposed(pre.state, pre.sites, pre.values)
    /\ pc = "next_randoms" =>
         /\ oracle_calls = 1 /\ engine_ = 0 /\ AsOnEntry
         /\ proposed_Y_ = LogVal(machine_, proposed_X_)
    /\ pc \in {"next_accept", "next_select"} =>
         /\ oracle_calls = 1 /\ engine_ = BatchSize(state_) /\ AsOnEntry
    /\ pc = "next_commit" =>
         /\ oracle_calls = 1 /\ engine_ = BatchSize(state_)
         /\ state_ = pre.state /\ sites_ = pre.sites /\ values_ = pre.values
         /\ current_Y_ = Select(accept_, proposed_Y_, pre.current_Y)
    /\ CompletedNext =>
         /\ oracle_calls = 1 /\ engine_ = 3 * BatchSize(state_)
         /\ state_ = ApplyAccepted(pre.state, pre.sites, pre.values, accept_)
    /\ FailedNext => oracle_calls = 1
    /\ pc \in {"ctor_logval", "reset_logval"} => oracle_calls = 0
    /\ (Observable /\ last_call \in {"Reset", "MetropolisLocalV2"}) =>
         oracle_calls = 1

\* A completed Next of two chains that accepted one and rejected the other
C10_Witness ==
  /\ CompletedNext
  /\ batch_size = 2
  /\ oracle_calls = 1 /\ engine_ = 6
  /\ \E j, k \in Chains : accept_[j] /\ ~accept_[k]
  /\ state_ # pre.state /\ current_Y_ # pre.current_Y

\* A step that is Flipper::Next: the caller's call on a bare Flipper, or
\* flipper_.Next({accept_}) at the end of the sampler's Next
IsFlipperNext ==
  \/ harness = "Flipper" /\ pc = "idle" /\ pc' = "idle" /\ last_call' = "Next"
  \/ Sampler /\ pc = "next_commit" /\ pc' = "idle"

\* C11: for every accept mask, Flipper::Next leaves in cell (j, s) the
\* chain's old pending value if chain j is accepted and s is its old pending
\* site, and the old entry otherwise: an accepted chain changes in that one
\* cell, a rejected chain's row is untouched, and no chain's bit or proposal
\* reaches another chain's row.
C11_CommitPostcondition ==
  [][IsFlipperNext =>
       \A j \in Chains : \A s \in 1..system_size :
         state_'[j][s] = IF accept_'[j] /\ s = sites_[j] + 1
                         THEN values_[j]
                         ELSE state_[j][s]]_vars

\* A bare Flipper of two chains and two sites after a Next that accepted the
\* first chain only, whose pending site was not the second chain's
C11_Witness ==
  /\ harness = "Flipper" /\ Observable /\ last_call = "Next"
  /\ batch_size = 2 /\ system_size = 2 /\ ProperAlphabet
  /\ accept_[1] /\ ~accept_[2]
  /\ state_[1] # state_[2]

FailedReset ==
  Sampler /\ Observable /\ last_call = "Reset" /\ result = "OracleError"

\* C12: when the machine throws inside Reset, the sampler is left with a
\* current_Y_ that is the machine's log-amplitude of the configuration it
\* now shows: the configuration is not left redrawn next to a stale cache.
C12_ResetKeepsCacheOnOracleFailure ==
  FailedReset => CacheConsistent

\* The indices at which the lambda g of Flipper::RandomValues reads
\* local_states_ for the index idx it drew and the current value cur
IndexReads(ls, idx, cur) ==
  {idx, idx + (IF At(ls, idx) >= cur THEN 1 ELSE 0)}

\* C13: a Flipper or sampler built over an alphabet of exactly one value is
\* safe: the range 0 .. size-2 of the index draw is not empty, every index
\* at which RandomValues may read local_states_ from the state reached lies
\* in 0 .. size-1, and the pending values and the configuration hold the
\* alphabet's value only.
C13_OneValueAlphabetSafe ==
  (Observable /\ Len(local_states_) = 1) =>
    /\ 0 <= Len(local_states_) - 2
    /\ \A j \in Chains :
         \A idx \in UniformIntDistribution(0, Len(local_states_) - 2) :
           IndexReads(local_states_, idx, state_[j][sites_[j] + 1])
             \subseteq 0..(Len(local_states_) - 1)
    /\ \A j \in Chains :
         /\ values_[j] \in Range(local_states_)
         /\ \A s \in 1..system_size : state_[j][s] \in Range(local_states_)

\* The pending proposal is one (site, value) pair per chain, the site on
\* the lattice and the value a local state
ProposalWellFormed(sites, values) ==
  /\ Len(sites) = batch_size /\ Len(values) = batch_size
  /\ \A j \in 1..batch_size :
       /\ sites[j] \in 0..(system_size - 1)
       /\ values[j] \in Range(local_states)

\* C14: for an alphabet of two distinct values at least, every step that
\* ends in an observable state (construction, Reset, Next) leaves one pending
\* (site, value) pair per chain, the site in 0 .. system_size-1 and the value
\* a member of the alphabet; and every Flipper::Next draws batch_size sites
\* and batch_size value indices anew, for accepted and rejected chains
\* alike, each value drawn against the entry the chain then holds at its new
\* site.
C14_ProposalWellFormedAndRedrawn ==
  [][(pc' = "idle" /\ ProperAlphabet) =>
       /\ ProposalWellFormed(sites_', values_')
       /\ IsFlipperNext =>
            /\ engine_' = (IF Sampler THEN engine_ ELSE 0)
                            + batch_size + batch_size
            /\ \A j \in 1..batch_size :
                 values_'[j] \in
                   ShiftImage(local_states_, state_'[j][sites_'[j] + 1])]_vars

\* A sampler Next of two chains that rejected a chain and left that chain
\* with another pending site
C14_Witness ==
  /\ Sampler /\ Observable /\ ProperAlphabet
  /\ last_call = "Next" /\ result = "ok"
  /\ batch_size = 2 /\ system_size = 2
  /\ \E j \in Chains : ~accept_[j] /\ sites_[j] # pre.sites[j]
  /\ ProposalWellFormed(sites_, values_)
  /\ engine_ = 3 * batch_size

\* The step of MetropolisLocalV2::Next that is flipper_.Read(proposed_X_)
IsFlipperRead == Sampler /\ pc = "idle" /\ pc' = "next_logval"

\* The cells in which the rows x and y differ
DifferingCells(x, y) == {s \in DOMAIN x : x[s] # y[s]}

\* C15: Flipper::Read(x) on the sampler's batch_size x system_size buffer
\* leaves x(j, s) = values_(j) for s = sites_(j) and state_(j, s) for every
\* other s; it changes neither state_, sites_, values_ nor draws from the
\* generator; and for an alphabet of two distinct values at least every row
\* of x differs from the row of state_ in exactly one cell.
C15_ReadIsPureView ==
  [][IsFlipperRead =>
       /\ \A j \in Chains : \A s \in 1..system_size :
            proposed_X_'[j][s] = IF s = sites_[j] + 1 THEN values_[j]
                                 ELSE state_[j][s]
       /\ UNCHANGED <<local_states_, state_, sites_, values_>>
       /\ engine_' = 0
       /\ ProperAlphabet =>
            \A j \in Chains :
              Cardinality(DifferingCells(proposed_X_'[j], state_[j])) = 1]_vars

\* A buffer just read from a Flipper of two chains that propose at
\* different sites
C15_Witness ==
  /\ Sampler /\ pc = "next_logval" /\ ProperAlphabet
  /\ batch_size = 2 /\ system_size = 2
  /\ sites_[1] # sites_[2]
  /\ \A j \in Chains :
       DifferingCells(proposed_X_[j], state_[j]) = {sites_[j] + 1}

RepeatedLocalState ==
  /\ batch_size >= 1 /\ system_size >= 1
  /\ ~IsDistinct(local_states)

\* C16: when a value is repeated in the alphabet given to the constructor
\* (and the sizes are valid) the constructor raises no argument error, and
\* the object it builds has a proposal that is a self-transition: a current
\* value c and an index draw idx in 0 .. size-2 that g maps back to c.
C16_RepeatedLocalStateBreaksI3 ==
  (RepeatedLocalState /\ pc # "new") =>
    /\ result # "InvalidInputError"
    /\ Observable =>
         \E c \in Range(local_states_) :
           \E idx \in 0..(Len(local_states_) - 2) :
             ShiftedValue(local_states_, idx, c) = c

\* A Flipper over a repeated local state whose pending value, after a Next,
\* is the value its chain holds at the pending site
C16_Witness ==
  /\ harness = "Flipper" /\ Observable /\ RepeatedLocalState
  /\ last_call = "Next"
  /\ Cardinality(Range(local_states_)) = 2
  /\ \E j \in Chains : values_[j] = state_[j][sites_[j] + 1]

\* The second sampler has the members of the first
TwinAgrees == twin.object = Self

\* For two distinct values at least: the samplers built over local_states
\* and over a permutation of it agree after every call
TwinAgreesOnProperAlphabet ==
  (Observable /\ ProperAlphabet) => TwinAgrees

\* C17: two samplers built over permutations of the same distinct values,
\* with the same machine, fed the same numbers and the same calls (Reset,
\* Next), have the same configuration, pending sites and values, cached
\* log-amplitudes and buffers after construction and after every call.
C17_AlphabetOrderIrrelevant ==
  (Observable /\ IsDistinct(local_states)
     /\ twin.local_states \in PermutationsOf(local_states))
    => TwinAgrees

\* The last call took n numbers of kind a, then n of kind b, then n of kind c
TookInOrder(na, a, n, b, c) ==
  /\ Len(schedule) = na + n + n
  /\ \A i \in 1..na : schedule[i] = a
  /\ \A i \in 1..n : schedule[na + i] = b /\ schedule[na + n + i] = c

\* C18: a Next that returned took batch_size uniform reals, then batch_size
\* sites, then batch_size value indices from the generator, a Reset
\* batch_size * system_size cells, then batch_size sites, then batch_size
\* value indices; and two samplers built with the same arguments, fed the
\* same numbers and the same calls, have the same members after every call.
C18_DrawScheduleDeterministic ==
  (Observable /\ twin.local_states = local_states) =>
    /\ (last_call = "Next" /\ result = "ok")
         => TookInOrder(batch_size, "real", batch_size, "site", "index")
    /\ last_call = "Reset"
         => TookInOrder(batch_size * system_size, "cell", batch_size,
                        "site", "index")
    /\ TwinAgrees

====
